---- MODULE Spec2Model ----
(***************************************************************************)
(* The Polyline widget of gmaps/polyline.py as a state machine.            *)
(*                                                                         *)
(* One behaviour is the life of one Polyline entity: a single construction *)
(* (Polyline(kwargs) or polyline_layer(points, ...)) followed by any       *)
(* number of attribute assignments.  Latitudes, longitudes, opacities and  *)
(* weights are floats in the program; only their order matters to the      *)
(* code, so they are integers here.                                        *)
(*                                                                         *)
(* A trait assignment obj.name = value goes through the steps the trait    *)
(* declarations of the class ask for:                                      *)
(*   1. the declared constraint of the trait (List minlen, Float min/max); *)
(*      a violation raises TraitError and nothing is changed;              *)
(*   2. the @validate handler of the trait (cross-validation); an          *)
(*      exception leaves everything unchanged;                             *)
(*   3. commit of the value;                                               *)
(*   4. if the value differs from the old one: the change notification,    *)
(*      which for a sync=True trait sends the update to the front-end and  *)
(*      then runs the @observe handlers.                                   *)
(***************************************************************************)
EXTENDS Integers, Sequences, FiniteSets, TLC

VARIABLES
    exists,          \* TRUE once a construction has returned an entity
    data,            \* Polyline.data
    data_bounds,     \* Polyline.data_bounds
    geodesic,        \* Polyline.geodesic
    stroke_color,    \* Polyline.stroke_color
    stroke_opacity,  \* Polyline.stroke_opacity
    stroke_weight,   \* Polyline.stroke_weight
    comm,            \* state updates the last operation sent to the front-end, in order
    calc_runs,       \* the sequences _calc_bounds was run on during the last operation
    last             \* the last operation: [op, args, result]

vars == <<exists, data, data_bounds, geodesic, stroke_color, stroke_opacity,
          stroke_weight, comm, calc_runs, last>>

styles == <<geodesic, stroke_color, stroke_opacity, stroke_weight>>

-----------------------------------------------------------------------------
(* Bounds and input domains *)

MaxLen == 2

Point(lat, lng) == [lat |-> lat, lng |-> lng]

\* two in-range points that carry the four range ends, and one point beyond
\* each of the four range ends
Points ==
    { Point(90, -180), Point(-90, 180),
      Point(91, -180), Point(-91, 180), Point(90, 181), Point(-90, -181) }

DataInputs == UNION { [1..n -> Points] : n \in 0..MaxLen }

Colors == {"#FF0000", "#0000FF"}

OpacityInputs == {-1, 0, 1, 2}

WeightInputs == {0, 1, 2, 5, 6}

NoArgs == <<>>

\* an optional keyword argument k: absent, or bound to a value of S
Opt(k, S) == {NoArgs} \cup { [kk \in {k} |-> v] : v \in S }

Has(args, k) == k \in DOMAIN args

-----------------------------------------------------------------------------
(* Trait declarations *)

data_minlen == 2

default_data == <<>>

default_data_bounds == <<>>

default_geodesic == TRUE

default_stroke_color == "#FF0000"

default_stroke_opacity == 1

default_stroke_weight == 2

\* variant: the minimum length declared one too small
data_trait_min1(value) == Len(value) >= data_minlen - 1

\* variant: no minimum length declared
data_trait_nomin(value) == Len(value) >= 0

\* data = List(minlen=2)
data_trait(value) == Len(value) >= data_minlen

\* stroke_opacity = Float(default_value=1.0, min=0.0, max=1.0)
stroke_opacity_trait(value) == value >= 0 /\ value <= 1

\* variant: the ends of the range excluded
stroke_weight_trait_open(value) == value > 1 /\ value < 5

\* stroke_weight = Float(default_value=2, min=1.0, max=5.0)
stroke_weight_trait(value) == value >= 1 /\ value <= 5

\* geodesic = Bool(default_value=True)
geodesic_trait(value) == value \in BOOLEAN

\* stroke_color = geotraitlets.ColorAlpha(default_value="#FF0000"): a colour
\* string is kept as given
stroke_color_trait(value) == value \in Colors

-----------------------------------------------------------------------------
(* Validation and derivation *)

\* geotraitlets.is_valid_point((lat, lng))
is_valid_point(pt) ==
    /\ -90 <= pt[1] /\ pt[1] <= 90
    /\ -180 <= pt[2] /\ pt[2] <= 180

\* variant: the loop returns after checking the first point
_validate_data_first(value) ==
    IF value # <<>> /\ ~is_valid_point(<<value[1].lat, value[1].lng>>)
    THEN [raised |-> TRUE, value |-> value]
    ELSE [raised |-> FALSE, value |-> value]

\* variant: the pair handed to is_valid_point as (lng, lat)
_validate_data_swapped(value) ==
    IF \E i \in DOMAIN value : ~is_valid_point(<<value[i].lng, value[i].lat>>)
    THEN [raised |-> TRUE, value |-> value]
    ELSE [raised |-> FALSE, value |-> value]

\* @validate("data"): raises on the first point that is not valid, returns
\* the proposed value otherwise
_validate_data(value) ==
    IF \E i \in DOMAIN value : ~is_valid_point(<<value[i].lat, value[i].lng>>)
    THEN [raised |-> TRUE, value |-> value]
    ELSE [raised |-> FALSE, value |-> value]

min(S) == CHOOSE x \in S : \A y \in S : x <= y

max(S) == CHOOSE x \in S : \A y \in S : x >= y

\* variant: min and max of the points as pairs instead of per axis
_calc_bounds_pointwise(new) ==
    LET pts == { <<new[i].lat, new[i].lng>> : i \in DOMAIN new }
        le(a, b) == a[1] < b[1] \/ (a[1] = b[1] /\ a[2] <= b[2])
    IN  << CHOOSE a \in pts : \A b \in pts : le(a, b),
           CHOOSE a \in pts : \A b \in pts : le(b, a) >>

\* variant: the rectangle extended from the current data_bounds instead of
\* computed afresh
_calc_bounds_stale(new) ==
    LET old == IF data_bounds = <<>> THEN {} ELSE {data_bounds[1], data_bounds[2]}
        lats == { new[i].lat : i \in DOMAIN new } \cup { c[1] : c \in old }
        lngs == { new[i].lng : i \in DOMAIN new } \cup { c[2] : c \in old }
    IN  << <<min(lats), min(lngs)>>, <<max(lats), max(lngs)>> >>

\* @observe("data"): the value assigned to data_bounds for change["new"] = new
_calc_bounds(new) ==
    LET lats == { new[i].lat : i \in DOMAIN new }
        lngs == { new[i].lng : i \in DOMAIN new }
    IN  << <<min(lats), min(lngs)>>, <<max(lats), max(lngs)>> >>

\* variant: the data update sent after the observers have run
notify_data_derive_first(new, old_bounds, new_bounds) ==
    (IF new_bounds # old_bounds THEN <<[data_bounds |-> new_bounds]>> ELSE <<>>)
    \o <<[data |-> new]>>

\* the state updates of a change of data to new: the data update goes out
\* when the change is notified, before the observer derives the bounds, and
\* the assignment to data_bounds in the observer sends its own update if the
\* bounds changed
notify_data(new, old_bounds, new_bounds) ==
    <<[data |-> new]>> \o
    (IF new_bounds # old_bounds THEN <<[data_bounds |-> new_bounds]>> ELSE <<>>)

\* obj.data = value on an entity with the given data and data_bounds
set_data(value, old, old_bounds) ==
    LET same(result) == [result |-> result, data |-> old, data_bounds |-> old_bounds,
                         comm |-> <<>>, calc_runs |-> <<>>]
    IN  IF ~data_trait(value) THEN same("TraitError")
        ELSE IF _validate_data(value).raised THEN same("InvalidPointException")
        ELSE LET new == _validate_data(value).value IN
             IF new = old THEN same("ok")
             ELSE IF new = <<>>
                  THEN \* min() of an empty sequence raises in the observer
                       [result |-> "ValueError", data |-> new, data_bounds |-> old_bounds,
                        comm |-> <<[data |-> new]>>, calc_runs |-> <<new>>]
                  ELSE [result |-> "ok", data |-> new, data_bounds |-> _calc_bounds(new),
                        comm |-> notify_data(new, old_bounds, _calc_bounds(new)),
                        calc_runs |-> <<new>>]

-----------------------------------------------------------------------------
(* Construction *)

Arg(kwargs, k, default) == IF Has(kwargs, k) THEN kwargs[k] ELSE default

\* Polyline(kwargs).  The keyword values are assigned with notifications
\* held: the declared constraints are checked at each assignment, the
\* @validate handler when all are assigned, the observers after that.  The
\* widget then opens its comm with its full state, which reads every
\* synchronized trait; a trait that was not assigned is read from its
\* default, and a default is validated like an assigned value.
Polyline_init(kwargs) ==
    LET d == Arg(kwargs, "data", default_data)
        g == Arg(kwargs, "geodesic", default_geodesic)
        c == Arg(kwargs, "stroke_color", default_stroke_color)
        o == Arg(kwargs, "stroke_opacity", default_stroke_opacity)
        w == Arg(kwargs, "stroke_weight", default_stroke_weight)
        none(result, runs) ==
            [exists |-> FALSE, result |-> result, data |-> default_data,
             data_bounds |-> default_data_bounds, geodesic |-> default_geodesic,
             stroke_color |-> default_stroke_color,
             stroke_opacity |-> default_stroke_opacity,
             stroke_weight |-> default_stroke_weight,
             comm |-> <<>>, calc_runs |-> runs]
    IN  IF \/ ~data_trait(d) \/ ~geodesic_trait(g) \/ ~stroke_color_trait(c)
           \/ ~stroke_opacity_trait(o) \/ ~stroke_weight_trait(w)
        THEN none("TraitError", <<>>)
        ELSE IF _validate_data(d).raised
        THEN \* the held notification of data is still delivered on the way out
             none("InvalidPointException", IF d # default_data THEN <<d>> ELSE <<>>)
        ELSE LET b == IF d # default_data THEN _calc_bounds(d) ELSE default_data_bounds
             IN  [exists |-> TRUE, result |-> "ok", data |-> d, data_bounds |-> b,
                  geodesic |-> g, stroke_color |-> c, stroke_opacity |-> o,
                  stroke_weight |-> w,
                  comm |-> <<[data |-> d, data_bounds |-> b, geodesic |-> g,
                              stroke_color |-> c, stroke_opacity |-> o,
                              stroke_weight |-> w]>>,
                  calc_runs |-> IF d # default_data THEN <<d>> ELSE <<>>]

\* locations_to_latlng(points): (lat, lng) pairs to {lat, lng} records
locations_to_latlng(points) ==
    [i \in DOMAIN points |-> [lat |-> points[i][1], lng |-> points[i][2]]]

\* variant: the geodesic argument not passed on
_polyline_options_nogeodesic(points, geodesic_, stroke_color_, stroke_opacity_, stroke_weight_) ==
    [data |-> locations_to_latlng(points),
     stroke_color |-> stroke_color_, stroke_opacity |-> stroke_opacity_,
     stroke_weight |-> stroke_weight_]

_polyline_options(points, geodesic_, stroke_color_, stroke_opacity_, stroke_weight_) ==
    [data |-> locations_to_latlng(points), geodesic |-> geodesic_,
     stroke_color |-> stroke_color_, stroke_opacity |-> stroke_opacity_,
     stroke_weight |-> stroke_weight_]

\* polyline_layer(points, geodesic=True, stroke_color="#FF0000",
\*                stroke_opacity=1.0, stroke_weight=2)
polyline_layer(args) ==
    Polyline_init(_polyline_options(args.points,
                                    Arg(args, "geodesic", TRUE),
                                    Arg(args, "stroke_color", "#FF0000"),
                                    Arg(args, "stroke_opacity", 1),
                                    Arg(args, "stroke_weight", 2)))

-----------------------------------------------------------------------------
(* State machine *)

Init ==
    /\ exists = FALSE
    /\ data = default_data
    /\ data_bounds = default_data_bounds
    /\ geodesic = default_geodesic
    /\ stroke_color = default_stroke_color
    /\ stroke_opacity = default_stroke_opacity
    /\ stroke_weight = default_stroke_weight
    /\ comm = <<>>
    /\ calc_runs = <<>>
    /\ last = [op |-> "none", args |-> NoArgs, result |-> "ok"]

Constructed(op, args, r) ==
    /\ exists' = r.exists
    /\ data' = r.data
    /\ data_bounds' = r.data_bounds
    /\ geodesic' = r.geodesic
    /\ stroke_color' = r.stroke_color
    /\ stroke_opacity' = r.stroke_opacity
    /\ stroke_weight' = r.stroke_weight
    /\ comm' = r.comm
    /\ calc_runs' = r.calc_runs
    /\ last' = [op |-> op, args |-> args, result |-> r.result]

Construct(kwargs) ==
    /\ ~exists
    /\ last.op = "none"
    /\ Constructed("Polyline", kwargs, Polyline_init(kwargs))

PolylineLayer(args) ==
    /\ ~exists
    /\ last.op = "none"
    /\ Constructed("polyline_layer", args, polyline_layer(args))

\* variant: an assignment to data puts the style attributes back to their defaults
SetData_resets_styles(value) ==
    /\ exists
    /\ LET r == set_data(value, data, data_bounds) IN
        /\ data' = r.data
        /\ data_bounds' = r.data_bounds
        /\ comm' = r.comm
        /\ calc_runs' = r.calc_runs
        /\ last' = [op |-> "setattr", args |-> [data |-> value], result |-> r.result]
    /\ geodesic' = default_geodesic
    /\ stroke_color' = default_stroke_color
    /\ stroke_opacity' = default_stroke_opacity
    /\ stroke_weight' = default_stroke_weight
    /\ UNCHANGED exists

SetData(value) ==
    /\ exists
    /\ LET r == set_data(value, data, data_bounds) IN
        /\ data' = r.data
        /\ data_bounds' = r.data_bounds
        /\ comm' = r.comm
        /\ calc_runs' = r.calc_runs
        /\ last' = [op |-> "setattr", args |-> [data |-> value], result |-> r.result]
    /\ UNCHANGED <<exists, geodesic, stroke_color, stroke_opacity, stroke_weight>>

NextData ==
    \/ \E kwargs \in Opt("data", DataInputs) : Construct(kwargs)
    \/ \E value \in DataInputs : SetData(value)

SpecData == Init /\ [][NextData]_vars

\* obj.<name> = value for a style trait with the given declared constraint
SetStyle(name, value, accepted) ==
    /\ exists
    /\ geodesic' = IF name = "geodesic" /\ accepted THEN value ELSE geodesic
    /\ stroke_color' = IF name = "stroke_color" /\ accepted THEN value ELSE stroke_color
    /\ stroke_opacity' = IF name = "stroke_opacity" /\ accepted THEN value ELSE stroke_opacity
    /\ stroke_weight' = IF name = "stroke_weight" /\ accepted THEN value ELSE stroke_weight
    /\ comm' = IF accepted /\ styles' # styles THEN <<[n \in {name} |-> value]>> ELSE <<>>
    /\ calc_runs' = <<>>
    /\ last' = [op |-> "setattr", args |-> [n \in {name} |-> value],
                result |-> IF accepted THEN "ok" ELSE "TraitError"]
    /\ UNCHANGED <<exists, data, data_bounds>>

SetGeodesic(value) == SetStyle("geodesic", value, geodesic_trait(value))

SetStrokeColor(value) == SetStyle("stroke_color", value, stroke_color_trait(value))

SetStrokeOpacity(value) == SetStyle("stroke_opacity", value, stroke_opacity_trait(value))

SetStrokeWeight(value) == SetStyle("stroke_weight", value, stroke_weight_trait(value))

\* the data assigned in the specification with the style attributes
SampleData ==
    { <<>>,
      <<Point(10, 20)>>,
      <<Point(91, -180)>>,
      <<Point(90, -180), Point(-90, 180)>>,
      <<Point(10, 20), Point(90, -180)>>,
      <<Point(10, 20), Point(90, 181)>> }

SampleKwargs ==
    { d @@ o @@ w : d \in Opt("data", SampleData),
                    o \in Opt("stroke_opacity", OpacityInputs),
                    w \in Opt("stroke_weight", WeightInputs) }

LayerPoints ==
    { << <<10, 20>> >>,
      << <<90, -180>>, <<-90, 180>> >>,
      << <<10, 20>>, <<90, -180>> >>,
      << <<10, 20>>, <<-91, 180>> >> }

LayerArgs ==
    { [points |-> p] @@ g @@ c @@ o @@ w :
        p \in LayerPoints,
        g \in Opt("geodesic", BOOLEAN),
        c \in Opt("stroke_color", Colors),
        o \in Opt("stroke_opacity", OpacityInputs),
        w \in Opt("stroke_weight", WeightInputs) }

Next ==
    \/ \E kwargs \in SampleKwargs : Construct(kwargs)
    \/ \E args \in LayerArgs : PolylineLayer(args)
    \/ \E value \in SampleData : SetData(value)
    \/ \E value \in BOOLEAN : SetGeodesic(value)
    \/ \E value \in Colors : SetStrokeColor(value)
    \/ \E value \in OpacityInputs : SetStrokeOpacity(value)
    \/ \E value \in WeightInputs : SetStrokeWeight(value)

Spec == Init /\ [][Next]_vars

-----------------------------------------------------------------------------
(* Vocabulary of the properties *)

InRange(p) == -90 <= p.lat /\ p.lat <= 90 /\ -180 <= p.lng /\ p.lng <= 180

OutOfRange(p) == p.lat > 90 \/ p.lat < -90 \/ p.lng > 180 \/ p.lng < -180

OnRangeEnd(p) == p.lat = 90 \/ p.lat = -90 \/ p.lng = 180 \/ p.lng = -180

\* b is [(min lat, min lng), (max lat, max lng)] of the non-empty sequence P,
\* each extreme taken on its own axis
IsRectOf(b, P) ==
    /\ Len(P) >= 1
    /\ Len(b) = 2
    /\ Len(b[1]) = 2
    /\ Len(b[2]) = 2
    /\ \E i \in DOMAIN P : P[i].lat = b[1][1]
    /\ \E i \in DOMAIN P : P[i].lng = b[1][2]
    /\ \E i \in DOMAIN P : P[i].lat = b[2][1]
    /\ \E i \in DOMAIN P : P[i].lng = b[2][2]
    /\ \A i \in DOMAIN P :
        /\ b[1][1] <= P[i].lat /\ P[i].lat <= b[2][1]
        /\ b[1][2] <= P[i].lng /\ P[i].lng <= b[2][2]

\* the style keyword arguments that are given are within their declared ranges
StyleArgsInRange(args) ==
    /\ Has(args, "stroke_opacity") => (0 <= args.stroke_opacity /\ args.stroke_opacity <= 1)
    /\ Has(args, "stroke_weight") => (1 <= args.stroke_weight /\ args.stroke_weight <= 5)

\* the last operation was obj.<name> = value
Assigned(l, name) == l.op = "setattr" /\ Has(l.args, name)

\* the front-end view that started as view, after the first k updates of msgs
RECURSIVE ViewAfter(_, _, _)
ViewAfter(msgs, k, view) ==
    IF k = 0 THEN view ELSE msgs[k] @@ ViewAfter(msgs, k - 1, view)

-----------------------------------------------------------------------------
(* Properties *)

C2_Original ==
    [][ ( /\ Assigned(last', "data")
          /\ \E i \in DOMAIN last'.args.data : OutOfRange(last'.args.data[i]) )
        => ( /\ last'.result = "InvalidPointException"
             /\ data' = data
             /\ data_bounds' = data_bounds ) ]_vars

\* C2 (amended): assigning to data a sequence with a coordinate out of range
\* fails and leaves data and data_bounds as they were; the failure is the
\* invalid-coordinate error when the sequence has length >= 2 and the length
\* error of the trait when it is shorter.
C2_RejectOutOfRange ==
    [][ ( /\ Assigned(last', "data")
          /\ \E i \in DOMAIN last'.args.data : OutOfRange(last'.args.data[i]) )
        => ( /\ last'.result =
                  IF Len(last'.args.data) >= 2 THEN "InvalidPointException"
                                                ELSE "TraitError"
             /\ data' = data
             /\ data_bounds' = data_bounds
             /\ comm' = <<>> ) ]_vars

\* a rejected assignment whose offending point is not the first one
C2_Witness ==
    /\ exists
    /\ Assigned(last, "data")
    /\ last.result = "InvalidPointException"
    /\ Len(last.args.data) = 2
    /\ InRange(last.args.data[1])
    /\ OutOfRange(last.args.data[2])
    /\ data # last.args.data

\* C3: whatever assignments came before, data_bounds is the per-axis min/max
\* rectangle of the committed data alone, and an accepted assignment commits
\* exactly the assigned sequence.
C3_BoundsOfCommitted ==
    /\ exists => IsRectOf(data_bounds, data)
    /\ (Assigned(last, "data") /\ last.result = "ok") => data = last.args.data
    /\ (Assigned(last, "data") /\ last.result # "ok") => data # last.args.data

\* a re-assignment that changed the bounds to those of a single repeated point
C3_Witness ==
    /\ Assigned(last, "data")
    /\ last.result = "ok"
    /\ Len(comm) = 2
    /\ data_bounds[1] = data_bounds[2]

\* C4: a sequence of length 1 is rejected at construction and at assignment,
\* whether or not its coordinate is in range, and previously committed data
\* and data_bounds stay.
C4_LengthOne ==
    [][ /\ ( /\ last'.op = "Polyline"
             /\ Has(last'.args, "data")
             /\ Len(last'.args.data) = 1 )
           => (~exists' /\ last'.result = "TraitError")
        /\ ( /\ Assigned(last', "data")
             /\ Len(last'.args.data) = 1 )
           => ( /\ last'.result = "TraitError"
                /\ data' = data
                /\ data_bounds' = data_bounds ) ]_vars

\* a rejected assignment of a single in-range point
C4_Witness ==
    /\ exists
    /\ Assigned(last, "data")
    /\ Len(last.args.data) = 1
    /\ InRange(last.args.data[1])
    /\ last.result = "TraitError"
    /\ Len(data) >= 2

\* C5: the committed data of an entity always has length >= 2 (a construction
\* without data yields no entity), data_bounds is never the value of an empty
\* sequence, and the bounds are never derived from an empty sequence.
C5_NeverEmpty ==
    /\ exists => (Len(data) >= 2 /\ Len(data_bounds) = 2)
    /\ \A i \in DOMAIN calc_runs : Len(calc_runs[i]) >= 2
    /\ (last.op = "Polyline" /\ ~Has(last.args, "data")) => ~exists

\* an entity that has just refused the empty sequence
C5_Witness ==
    /\ exists
    /\ Assigned(last, "data")
    /\ last.args.data = <<>>
    /\ last.result = "TraitError"
    /\ calc_runs = <<>>

\* C6: a sequence of length >= 2 with coordinates on the range ends
\* (lat = 90, lat = -90, lng = 180, lng = -180) and none out of range is
\* accepted by construction and by assignment and becomes the committed data.
C6_InclusiveRange ==
    ( /\ last.op \in {"Polyline", "setattr"}
      /\ Has(last.args, "data")
      /\ Len(last.args.data) >= 2
      /\ \A i \in DOMAIN last.args.data : InRange(last.args.data[i])
      /\ \E i \in DOMAIN last.args.data : OnRangeEnd(last.args.data[i])
      /\ StyleArgsInRange(last.args) )
    => ( /\ exists
         /\ last.result = "ok"
         /\ data = last.args.data )

\* an assignment that committed all four range ends
C6_Witness ==
    /\ Assigned(last, "data")
    /\ last.result = "ok"
    /\ \E i \in DOMAIN data : data[i].lat = 90
    /\ \E i \in DOMAIN data : data[i].lat = -90
    /\ \E i \in DOMAIN data : data[i].lng = 180
    /\ \E i \in DOMAIN data : data[i].lng = -180

\* C7: the entity polyline_layer returns has geodesic, stroke_color,
\* stroke_opacity and stroke_weight equal to the arguments passed, and an
\* omitted one has its documented default: True, "#FF0000", 1.0, 2.
C7_LayerStyles ==
    (last.op = "polyline_layer" /\ last.result = "ok")
    => ( /\ exists
         /\ geodesic = IF Has(last.args, "geodesic") THEN last.args.geodesic ELSE TRUE
         /\ stroke_color = IF Has(last.args, "stroke_color") THEN last.args.stroke_color
                                                             ELSE "#FF0000"
         /\ stroke_opacity = IF Has(last.args, "stroke_opacity") THEN last.args.stroke_opacity
                                                                 ELSE 1
         /\ stroke_weight = IF Has(last.args, "stroke_weight") THEN last.args.stroke_weight
                                                               ELSE 2 )

\* a layer built with two style arguments passed and two omitted
C7_Witness ==
    /\ last.op = "polyline_layer"
    /\ last.result = "ok"
    /\ Has(last.args, "geodesic") /\ geodesic = FALSE
    /\ Has(last.args, "stroke_weight") /\ stroke_weight = 5
    /\ ~Has(last.args, "stroke_color") /\ stroke_color = "#FF0000"
    /\ ~Has(last.args, "stroke_opacity") /\ stroke_opacity = 1

\* C8: assigning stroke_opacity a value outside [0, 1] or stroke_weight a
\* value outside [1, 5] is rejected with the out-of-range error and the
\* attribute keeps its value; a value within the range, ends included, is
\* accepted.
C8_StyleRanges ==
    [][ /\ Assigned(last', "stroke_opacity") =>
            LET v == last'.args.stroke_opacity IN
            IF v < 0 \/ v > 1
            THEN last'.result = "TraitError" /\ stroke_opacity' = stroke_opacity
            ELSE last'.result = "ok" /\ stroke_opacity' = v
        /\ Assigned(last', "stroke_weight") =>
            LET v == last'.args.stroke_weight IN
            IF v < 1 \/ v > 5
            THEN last'.result = "TraitError" /\ stroke_weight' = stroke_weight
            ELSE last'.result = "ok" /\ stroke_weight' = v ]_vars

\* a weight above the range refused by an entity whose weight is the upper end
C8_Witness ==
    /\ Assigned(last, "stroke_weight")
    /\ last.args.stroke_weight = 6
    /\ last.result = "TraitError"
    /\ stroke_weight = 5
    /\ stroke_opacity = 0

\* C9 (as stated): no consumer of the synchronized attributes sees the new
\* data together with the data_bounds of the previous data: after every
\* update of an accepted assignment to data, a view that holds the new data
\* holds the new bounds.
C9_Original ==
    [][ (Assigned(last', "data") /\ last'.result = "ok" /\ data' # data)
        => \A k \in 1..Len(comm') :
            LET view == ViewAfter(comm', k, [data |-> data, data_bounds |-> data_bounds])
            IN  view.data = data' => view.data_bounds = data_bounds' ]_vars

\* C9 (amended): an accepted assignment that changes data validates, commits
\* and then derives the bounds from the new data; the data update is sent to
\* the front-end before the bounds are derived, so when the bounds change the
\* view holds the new data with the previous data_bounds until the
\* data_bounds update that follows; once all updates of the assignment are
\* applied the view holds the new data and its rectangle, as does the entity.
C9_CommitThenDerive ==
    [][ (Assigned(last', "data") /\ last'.result = "ok" /\ data' # data)
        => LET view0 == [data |-> data, data_bounds |-> data_bounds]
               viewN == ViewAfter(comm', Len(comm'), view0)
           IN  /\ calc_runs' = <<data'>>
               /\ IsRectOf(data_bounds', data')
               /\ Len(comm') >= 1
               /\ comm'[1] = [data |-> data']
               /\ viewN = [data |-> data', data_bounds |-> data_bounds']
               /\ data_bounds' # data_bounds =>
                    /\ Len(comm') = 2
                    /\ ViewAfter(comm', 1, view0) =
                         [data |-> data', data_bounds |-> data_bounds] ]_vars

\* an accepted assignment that changed data and data_bounds
C9_Witness ==
    /\ Assigned(last, "data")
    /\ last.result = "ok"
    /\ Len(comm) = 2
    /\ comm[1] = [data |-> data]
    /\ comm[2] = [data_bounds |-> data_bounds]

\* C10: an assignment to data, accepted or not, leaves the four style
\* attributes as they were; an assignment to a style attribute, accepted or
\* not, leaves data and data_bounds as they were, and touches no other style
\* attribute; data_bounds changes only when data changes.
C10_Frame ==
    [][ /\ Assigned(last', "data") => styles' = styles
        /\ ( \/ Assigned(last', "geodesic")
             \/ Assigned(last', "stroke_color")
             \/ Assigned(last', "stroke_opacity")
             \/ Assigned(last', "stroke_weight") )
           => (data' = data /\ data_bounds' = data_bounds)
        /\ (last'.op = "setattr" /\ ~Assigned(last', "geodesic")) => geodesic' = geodesic
        /\ (last'.op = "setattr" /\ ~Assigned(last', "stroke_color")) => stroke_color' = stroke_color
        /\ (last'.op = "setattr" /\ ~Assigned(last', "stroke_opacity")) => stroke_opacity' = stroke_opacity
        /\ (last'.op = "setattr" /\ ~Assigned(last', "stroke_weight")) => stroke_weight' = stroke_weight
        /\ (last'.op = "setattr" /\ data_bounds' # data_bounds) => data' # data ]_vars

\* an accepted assignment to data on an entity with no style at its default
C10_Witness ==
    /\ Assigned(last, "data")
    /\ last.result = "ok"
    /\ Len(comm) = 2
    /\ geodesic = FALSE
    /\ stroke_color = "#0000FF"
    /\ stroke_opacity = 0
    /\ stroke_weight = 5

====
